---- MODULE Spec2Model ----
(***************************************************************************)
(* Model of the llm-ocr backend: the Flask request handlers of             *)
(* backend/app.py (upload, process, cleanup) and the two text extractors   *)
(* of backend/scripts/ocr_to_md.py (ocr_to_markdown, llm_to_markdown).     *)
(*                                                                         *)
(* Texts are sequences of one-character strings, so that the string        *)
(* operations of the code (splitlines, rstrip, strip, join) are computed   *)
(* character by character; file names and file ids are strings.            *)
(***************************************************************************)
EXTENDS Integers, Sequences, FiniteSets, TLC

VARIABLES
    files,      \* the file system: resolved path -> content of the regular file there
    nextUuid,   \* the next value uuid.uuid4() yields
    procs,      \* per token upload returned: the process calls made on it
    last,       \* the last HTTP request handled and its response
    ext,        \* the last direct call of an extractor: its inputs and its outcome
    raw,        \* a raw text: the OCR engine's output or the remote model's content
    md,         \* the Markdown text produced from raw
    via         \* which path produced md: "none", "ocr" or "llm"

vars == <<files, nextUuid, procs, last, ext, raw, md, via>>

(***************************************************************************)
(* Bounds of the model.                                                    *)
(***************************************************************************)
MaxLen == 5

(***************************************************************************)
(* Characters and Python's string operations.                              *)
(***************************************************************************)
NL == "\n"
FF == "\f"

\* The characters texts are made of: a letter, a space, a newline, and the
\* form feed the OCR engine ends a page with.
TextChars == {"a", " ", NL, FF}

\* str.isspace() on the characters of the model.
Whitespace == {" ", NL, FF, "\t"}

\* The line boundaries str.splitlines() splits on.
LineBreaks == {NL, FF}

Texts == UNION {[1..n -> TextChars] : n \in 0..MaxLen}

\* The least index of s holding a character of set cs, 0 when there is none.
FirstIn(s, cs) ==
    IF \E i \in 1..Len(s) : s[i] \in cs
    THEN CHOOSE i \in 1..Len(s) : s[i] \in cs /\ \A j \in 1..(i - 1) : s[j] \notin cs
    ELSE 0

\* The greatest index of s holding a character outside cs, 0 when there is none.
LastNotIn(s, cs) ==
    IF \E i \in 1..Len(s) : s[i] \notin cs
    THEN CHOOSE i \in 1..Len(s) : s[i] \notin cs /\ \A j \in (i + 1)..Len(s) : s[j] \in cs
    ELSE 0

\* The least index of s holding a character outside cs, Len(s) + 1 when there is none.
FirstNotIn(s, cs) ==
    IF \E i \in 1..Len(s) : s[i] \notin cs
    THEN CHOOSE i \in 1..Len(s) : s[i] \notin cs /\ \A j \in 1..(i - 1) : s[j] \in cs
    ELSE Len(s) + 1

\* str.rstrip(): trailing whitespace removed.
RStrip(s) == SubSeq(s, 1, LastNotIn(s, Whitespace))

\* str.strip(): leading and trailing whitespace removed.
Strip(s) == SubSeq(s, FirstNotIn(s, Whitespace), LastNotIn(s, Whitespace))

\* str.splitlines(): the lines of s without their line breaks; a final line
\* break opens no further line, and the empty string has no line.
RECURSIVE SplitLines(_)
SplitLines(s) ==
    IF s = <<>> THEN <<>>
    ELSE LET i == FirstIn(s, LineBreaks)
         IN  IF i = 0 THEN <<s>>
             ELSE <<SubSeq(s, 1, i - 1)>> \o SplitLines(SubSeq(s, i + 1, Len(s)))

\* "\n".join(lines)
RECURSIVE JoinLines(_)
JoinLines(lines) ==
    IF lines = <<>> THEN <<>>
    ELSE IF Len(lines) = 1 THEN lines[1]
    ELSE lines[1] \o <<NL>> \o JoinLines(Tail(lines))

\* The loop of ocr_to_markdown that collapses runs of empty lines: lines is
\* what is left to read, empty the counter of the run, md_lines the result.
RECURSIVE CollapseBlank(_, _, _)
CollapseBlank(lines, empty, md_lines) ==
    IF lines = <<>> THEN md_lines
    ELSE LET ln == lines[1]
         IN  IF Strip(ln) # <<>>
             THEN CollapseBlank(Tail(lines), 0, Append(md_lines, ln))
             ELSE IF empty + 1 < 2
                  THEN CollapseBlank(Tail(lines), empty + 1, Append(md_lines, <<>>))
                  ELSE CollapseBlank(Tail(lines), empty + 1, md_lines)

\* A plausible slip: the final strip() of the joined text is left out.
MarkdownNormalizeNoStrip(text) ==
    LET split == SplitLines(text)
        lines == [i \in 1..Len(split) |-> RStrip(split[i])]
    IN  JoinLines(CollapseBlank(lines, 0, <<>>)) \o <<NL>>

\* A plausible slip: runs of empty lines are not collapsed.
MarkdownNormalizeNoCollapse(text) ==
    LET split == SplitLines(text)
        lines == [i \in 1..Len(split) |-> RStrip(split[i])]
    IN  Strip(JoinLines(lines)) \o <<NL>>

\* The Markdown normalization at the end of ocr_to_markdown.
MarkdownNormalize(text) ==
    LET split == SplitLines(text)
        lines == [i \in 1..Len(split) |-> RStrip(split[i])]
    IN  Strip(JoinLines(CollapseBlank(lines, 0, <<>>))) \o <<NL>>

\* What llm_to_markdown returns for the content of a successful response.
LlmContentToMarkdown(content) == Strip(content) \o <<NL>>

(***************************************************************************)
(* What the claims say of a result text.                                   *)
(***************************************************************************)

\* The lines of a text file: the pieces between newlines, the piece after a
\* final newline left out.
RECURSIVE TextLines(_)
TextLines(t) ==
    IF t = <<>> THEN <<>>
    ELSE LET i == FirstIn(t, {NL})
         IN  IF i = 0 THEN <<t>>
             ELSE <<SubSeq(t, 1, i - 1)>> \o TextLines(SubSeq(t, i + 1, Len(t)))

IsBlank(line) == \A i \in 1..Len(line) : line[i] \in Whitespace

HasText(t) == \E i \in 1..Len(t) : t[i] \notin Whitespace

EndsWithOneNewline(t) ==
    /\ Len(t) >= 1
    /\ t[Len(t)] = NL
    /\ Len(t) >= 2 => t[Len(t) - 1] # NL

\* Two blank lines in a row somewhere in t.
HasBlankRun(t) ==
    LET ls == TextLines(t)
    IN  \E i \in 1..(Len(ls) - 1) : IsBlank(ls[i]) /\ IsBlank(ls[i + 1])

NoLeadingBlankLine(t) == LET ls == TextLines(t) IN ls # <<>> => ~IsBlank(ls[1])

NoTrailingBlankLine(t) == LET ls == TextLines(t) IN ls # <<>> => ~IsBlank(ls[Len(ls)])

(***************************************************************************)
(* The environment of the extractors: the stored file, the OCR engine and  *)
(* its language packs, the API credential, the remote API.                 *)
(***************************************************************************)

\* What a path handed to an extractor holds: a scan the engine reads, a scan
\* the engine fails on, bytes that are no image, a zero-byte file, and "nofile"
\* for a path that cannot be opened as a file (a directory, a removed file).
Contents == {"scan", "badscan", "corrupt", "empty"}

\* open(image_path, "rb") succeeds.
Readable(content) == content # "nofile"

\* Image.open and the preprocessing succeed.
Decodable(content) == content \in {"scan", "badscan"}

\* The language codes of a request ("" also stands for a missing one).
LangCodes == {"eng", "hrv", ""}

\* The language packs an installation of the engine may hold.
Packs == {"eng", "hrv"}

ErrLang == "Failed loading language"
ErrEngine == "TesseractError"
ErrDecode == "UnidentifiedImageError"
ErrOpen == "OSError"
ErrExit == "SystemExit"

\* The raw text the engine reads off a scan with a language: the languages
\* read different texts, so that the language applied shows in the result.
RawOcrText(content, lang) ==
    IF lang = "eng" THEN <<"a", NL, NL, NL, "a", " ", NL, FF>>
    ELSE <<" ", "a", "a", NL, FF>>

\* pytesseract.image_to_string(img, lang): the text, or the TesseractError.
EngineRun(content, lang, installed) ==
    IF lang \notin installed THEN [ok |-> FALSE, text |-> <<>>, err |-> ErrLang]
    ELSE IF content = "badscan" THEN [ok |-> FALSE, text |-> <<>>, err |-> ErrEngine]
    ELSE [ok |-> TRUE, text |-> RawOcrText(content, lang), err |-> ""]

\* The outcome of a call of an extractor: the text returned or the exception
\* raised, and what the call did: the method and the language that produced
\* the text, the languages the engine was invoked with, the requests sent.
Returned(text, method, lang, calls, posts) ==
    [kind |-> "text", text |-> text, exc |-> "", method |-> method,
     lang |-> lang, calls |-> calls, posts |-> posts]

Raised(exc, calls, posts) ==
    [kind |-> "raise", text |-> <<>>, exc |-> exc, method |-> "none",
     lang |-> "none", calls |-> calls, posts |-> posts]

\* A plausible slip: the retry is made for every engine error.
OcrToMarkdownRetryAny(content, lang, installed) ==
    LET first == IF lang = "" THEN "eng" ELSE lang
        r1 == EngineRun(content, first, installed)
        r2 == EngineRun(content, "eng", installed)
    IN  IF ~Decodable(content) THEN Raised(IF Readable(content) THEN ErrDecode ELSE ErrOpen, <<>>, 0)
        ELSE IF r1.ok
        THEN Returned(MarkdownNormalize(r1.text), "ocr", first, <<first>>, 0)
        ELSE IF r2.ok
             THEN Returned(MarkdownNormalize(r2.text), "ocr", "eng", <<first, "eng">>, 0)
             ELSE Raised(r2.err, <<first, "eng">>, 0)

\* ocr_to_markdown(image_path, lang)
OcrToMarkdown(content, lang, installed) ==
    LET first == IF lang = "" THEN "eng" ELSE lang
        r1 == EngineRun(content, first, installed)
        r2 == EngineRun(content, "eng", installed)
    IN  IF ~Decodable(content) THEN Raised(IF Readable(content) THEN ErrDecode ELSE ErrOpen, <<>>, 0)
        ELSE IF r1.ok
        THEN Returned(MarkdownNormalize(r1.text), "ocr", first, <<first>>, 0)
        ELSE IF r1.err = ErrLang
        THEN IF r2.ok
             THEN Returned(MarkdownNormalize(r2.text), "ocr", "eng", <<first, "eng">>, 0)
             ELSE Raised(r2.err, <<first, "eng">>, 0)
        ELSE Raised(r1.err, <<first>>, 0)

\* The values an OPENROUTER_API_KEY setting may hold.
KeyValues == {"", "your-key", "your_api_key_here", "sk-or-v1"}

StartsWith(s, prefix) == Len(s) >= Len(prefix) /\ SubSeq(s, 1, Len(prefix)) = prefix

\* The test both credential sources go through: set, and no placeholder.
UsableKey(k) == k # "" /\ ~StartsWith(k, "your-") /\ k # "your_api_key_here"

MaxEnvLines == 2

\* The .env file: absent, unreadable, or the values of its OPENROUTER_API_KEY= lines.
EnvFiles ==
    {[state |-> "absent", keys |-> <<>>], [state |-> "unreadable", keys |-> <<>>]}
    \cup {[state |-> "present", keys |-> ks] :
            ks \in UNION {[1..n -> KeyValues] : n \in 0..MaxEnvLines}}

\* The environment variable: unset ("unset"), or a value.
EnvVars == {"unset"} \cup KeyValues

\* The loop over the .env file's lines: the first usable key ends it, any
\* other value resets api_key to None ("" here).
RECURSIVE KeyFromLines(_)
KeyFromLines(keys) ==
    IF keys = <<>> THEN ""
    ELSE IF UsableKey(keys[1]) THEN keys[1]
    ELSE KeyFromLines(Tail(keys))

\* The api_key llm_to_markdown ends up with; "" is None.
ResolveApiKey(envFile, envVar) ==
    LET fromFile == IF envFile.state = "present" THEN KeyFromLines(envFile.keys) ELSE ""
    IN  IF fromFile # "" THEN fromFile
        ELSE IF envVar # "unset" /\ UsableKey(envVar) THEN envVar
        ELSE ""

\* What requests.post and the reading of its response come to.
RemoteKinds ==
    {"ok", "timeout", "transport", "http_error", "bad_json", "no_choices",
     "empty_choices", "no_content"}

\* The contents a successful response may carry.
RemoteContents == {<<"a", NL, NL, NL, "a">>, <<" ", "a", NL, NL>>, <<>>}

Remotes ==
    {[kind |-> k, content |-> <<>>] : k \in RemoteKinds \ {"ok"}}
    \cup {[kind |-> "ok", content |-> c] : c \in RemoteContents}

\* The local extraction llm_to_markdown falls back to, after posts requests.
FallbackToOcr(content, lang, installed, posts) ==
    [OcrToMarkdown(content, lang, installed) EXCEPT !.posts = posts]

\* A plausible slip: the handler for timeouts is missing, and the timeout
\* of the request reaches the caller.
LlmToMarkdownTimeoutRaises(requestsAvail, envFile, envVar, remote, content, lang, installed) ==
    LET api_key == ResolveApiKey(envFile, envVar)
    IN  IF ~requestsAvail THEN Raised(ErrExit, <<>>, 0)
        ELSE IF ~Readable(content) THEN Raised(ErrOpen, <<>>, 0)
        ELSE IF api_key = "" THEN FallbackToOcr(content, lang, installed, 0)
        ELSE IF remote.kind = "ok"
        THEN Returned(LlmContentToMarkdown(remote.content), "llm", lang, <<>>, 1)
        ELSE IF remote.kind = "timeout" THEN Raised("Timeout", <<>>, 1)
        ELSE FallbackToOcr(content, lang, installed, 1)

\* A plausible slip: the fallback after a failed request uses the default language.
LlmToMarkdownFallbackEng(requestsAvail, envFile, envVar, remote, content, lang, installed) ==
    LET api_key == ResolveApiKey(envFile, envVar)
    IN  IF ~requestsAvail THEN Raised(ErrExit, <<>>, 0)
        ELSE IF ~Readable(content) THEN Raised(ErrOpen, <<>>, 0)
        ELSE IF api_key = "" THEN FallbackToOcr(content, lang, installed, 0)
        ELSE IF remote.kind = "ok"
        THEN Returned(LlmContentToMarkdown(remote.content), "llm", lang, <<>>, 1)
        ELSE FallbackToOcr(content, "eng", installed, 1)

\* llm_to_markdown(image_path, lang)
LlmToMarkdown(requestsAvail, envFile, envVar, remote, content, lang, installed) ==
    LET api_key == ResolveApiKey(envFile, envVar)
    IN  IF ~requestsAvail THEN Raised(ErrExit, <<>>, 0)
        ELSE IF ~Readable(content) THEN Raised(ErrOpen, <<>>, 0)
        ELSE IF api_key = "" THEN FallbackToOcr(content, lang, installed, 0)
        ELSE IF remote.kind = "ok"
        THEN Returned(LlmContentToMarkdown(remote.content), "llm", lang, <<>>, 1)
        ELSE FallbackToOcr(content, lang, installed, 1)

\* No extractor has been called.
NoCall ==
    [fn |-> "none", requestsAvail |-> TRUE, envFile |-> [state |-> "absent", keys |-> <<>>],
     envVar |-> "unset", remote |-> [kind |-> "timeout", content |-> <<>>],
     content |-> "scan", lang |-> "eng", installed |-> {},
     out |-> Raised("", <<>>, 0)]

ExtIdle == ext = NoCall

TextIdle == raw = <<>> /\ md = <<>> /\ via = "none"

(***************************************************************************)
(* File names, paths and the file system of the request handlers.          *)
(***************************************************************************)

\* The i-th character of a string.
Char(s, i) == SubSeq(s, i, i)

UpperCase == "ABCDEFGHIJKLMNOPQRSTUVWXYZ"
LowerCase == "abcdefghijklmnopqrstuvwxyz"
Digits == "0123456789"

InString(c, s) == \E i \in 1..Len(s) : Char(s, i) = c

\* str.lower()
RECURSIVE Lower(_)
Lower(s) ==
    IF s = "" THEN ""
    ELSE LET c == Char(s, 1)
             l == IF InString(c, UpperCase)
                  THEN Char(LowerCase, CHOOSE i \in 1..Len(UpperCase) : Char(UpperCase, i) = c)
                  ELSE c
         IN  l \o Lower(SubSeq(s, 2, Len(s)))

\* The greatest index of s holding character c, 0 when there is none.
LastIndexOf(s, c) ==
    IF InString(c, s)
    THEN CHOOSE i \in 1..Len(s) :
            Char(s, i) = c /\ \A j \in (i + 1)..Len(s) : Char(s, j) # c
    ELSE 0

ALLOWED_EXTENSIONS == {"png", "jpg", "jpeg", "gif", "bmp", "tiff", "pdf"}

\* allowed_file(filename)
allowed_file(filename) ==
    /\ InString(".", filename)
    /\ Lower(SubSeq(filename, LastIndexOf(filename, ".") + 1, Len(filename)))
           \in ALLOWED_EXTENSIONS

\* werkzeug's secure_filename, step 1: path separators become spaces.
RECURSIVE SeparatorsToSpaces(_)
SeparatorsToSpaces(s) ==
    IF s = "" THEN ""
    ELSE (IF Char(s, 1) = "/" THEN " " ELSE Char(s, 1))
         \o SeparatorsToSpaces(SubSeq(s, 2, Len(s)))

\* Step 2: "_".join(s.split()): runs of spaces become one underscore, those
\* at either end are dropped. atStart: no word has been written yet; gap: a
\* run of spaces has been read since the last word.
RECURSIVE JoinWords(_, _, _)
JoinWords(s, atStart, gap) ==
    IF s = "" THEN ""
    ELSE IF Char(s, 1) = " " THEN JoinWords(SubSeq(s, 2, Len(s)), atStart, TRUE)
    ELSE (IF gap /\ ~atStart THEN "_" ELSE "") \o Char(s, 1)
         \o JoinWords(SubSeq(s, 2, Len(s)), FALSE, FALSE)

\* Step 3: the characters outside [A-Za-z0-9_.-] are removed.
RECURSIVE AsciiStrip(_)
AsciiStrip(s) ==
    IF s = "" THEN ""
    ELSE (IF InString(Char(s, 1), UpperCase \o LowerCase \o Digits \o "_.-")
          THEN Char(s, 1) ELSE "")
         \o AsciiStrip(SubSeq(s, 2, Len(s)))

\* Step 4: strip("._")
RECURSIVE StripDots(_)
StripDots(s) ==
    IF s = "" THEN ""
    ELSE IF InString(Char(s, 1), "._") THEN StripDots(SubSeq(s, 2, Len(s)))
    ELSE IF InString(Char(s, Len(s)), "._") THEN StripDots(SubSeq(s, 1, Len(s) - 1))
    ELSE s

\* secure_filename(filename)
secure_filename(filename) ==
    StripDots(AsciiStrip(JoinWords(SeparatorsToSpaces(filename), TRUE, FALSE)))

\* A path string is held as the pieces between its slashes, an absolute
\* path with "/" as its first piece: "../victim.png" is <<"..", "victim.png">>,
\* "/tmp/up" is <<"/", "tmp", "up">>, and the empty string is <<>>.

\* app.config['UPLOAD_FOLDER']: the directory tempfile.mkdtemp() made.
UPLOAD_FOLDER == <<"/", "tmp", "up">>

IsAbsolute(path) == path # <<>> /\ path[1] = "/"

\* os.path.join(a, b): an absolute b replaces a.
PathJoin(a, b) == IF IsAbsolute(b) THEN b ELSE a \o b

\* The directories of the file system, as the names from the root down.
Dirs == {<<>>, <<"tmp">>, <<"tmp", "up">>}

NoPath == <<"?">>

\* The operating system's walk along the pieces of a path, from directory
\* at: "." stays, ".." goes up, a name goes down, and only a directory can
\* be gone through. NoPath when the walk fails.
RECURSIVE Walk(_, _)
Walk(at, pieces) ==
    IF pieces = <<>> THEN at
    ELSE IF at \notin Dirs THEN NoPath
    ELSE IF pieces[1] = "." THEN Walk(at, Tail(pieces))
    ELSE IF pieces[1] = ".."
         THEN Walk(IF at = <<>> THEN at ELSE SubSeq(at, 1, Len(at) - 1), Tail(pieces))
    ELSE Walk(Append(at, pieces[1]), Tail(pieces))

\* The place an absolute path names: the names from the root down.
ResolvePath(path) == Walk(<<>>, Tail(path))

\* os.path.exists(path)
PathExists(fs, path) == ResolvePath(path) \in DOMAIN fs \/ ResolvePath(path) \in Dirs

\* A file of another owner, outside the upload directory.
VictimPath == <<"tmp", "victim.png">>

\* The place upload stores the file of a token at.
StoredAt(file_id) == <<"tmp", "up">> \o file_id

\* The outcome of cleanup_file: the file system after it, whether a failure
\* was logged, and whether an exception left it.
\* A plausible slip: a failure of os.remove is not caught.
cleanup_file_raises(fs, filepath, rmFails) ==
    LET place == ResolvePath(filepath)
    IN  IF ~PathExists(fs, filepath)
        THEN [files |-> fs, cleanup |-> "absent", raised |-> FALSE]
        ELSE IF place \in Dirs \/ rmFails
        THEN [files |-> fs, cleanup |-> "failed", raised |-> TRUE]
        ELSE [files |-> [q \in DOMAIN fs \ {place} |-> fs[q]],
              cleanup |-> "removed", raised |-> FALSE]

\* cleanup_file(filepath): os.remove fails on a directory, and where the
\* environment refuses it (rmFails); the failure is logged.
cleanup_file(fs, filepath, rmFails) ==
    LET place == ResolvePath(filepath)
    IN  IF ~PathExists(fs, filepath)
        THEN [files |-> fs, cleanup |-> "absent", raised |-> FALSE]
        ELSE IF place \in Dirs \/ rmFails
        THEN [files |-> fs, cleanup |-> "failed", raised |-> FALSE]
        ELSE [files |-> [q \in DOMAIN fs \ {place} |-> fs[q]],
              cleanup |-> "removed", raised |-> FALSE]

(***************************************************************************)
(* The request handlers of app.py.                                         *)
(***************************************************************************)
MaxUploads == 1
MaxProcess == 2

\* The filenames a client uploads under: none, one with an extension off
\* the list, one with no extension, and one with an extension on the list,
\* in upper case and after a directory part.
FileNames == {"", "x.exe", "noext", "../B.PNG"}

\* The contents a client uploads.
UploadContents == {"scan", "empty"}

\* The file_id values a client sends besides the tokens upload returned:
\* "", "nope.png", ".", "../victim.png" and "/tmp/victim.png".
ForgedIds ==
    {<<>>, <<"nope.png">>, <<".">>, <<"..", "victim.png">>, <<"/", "tmp", "victim.png">>}

Methods == {"ocr", "llm"}

HandlerLangs == {"eng", "hrv"}

\* The environments a process request is served in: the requests library
\* imported or not, a usable credential or none; the remote API answers,
\* and the engine holds the pack of "eng" alone.
HandlerEnvs ==
    [requestsAvail : BOOLEAN,
     envFile : {[state |-> "absent", keys |-> <<>>]},
     envVar : {"unset", "sk-or-v1"},
     remote : {[kind |-> "ok", content |-> <<" ", "a", NL, NL>>]},
     installed : {{"eng"}}]

\* How file.save(filepath) ends: done, or failed with no file made.
SaveOutcomes == {"saved", "failed"}

\* No request has been handled. Of an upload the record keeps the request
\* (given: it has a part named file) and the response; of a process request
\* the file_id, the response, and what the handler did: the place it
\* resolved the file_id to, whether it went on to the extraction, how that
\* ended, the method and language that made the text, how the cleanup ended,
\* and (nth) which call on its token it was.
NoRequest ==
    [op |-> "none", status |-> 0, given |-> FALSE, filename |-> "", content |-> "",
     file_id |-> <<>>, method_used |-> "", language_out |-> "", raw_text |-> <<>>,
     outcome |-> "none", actual_method |-> "none", actual_lang |-> "none",
     place |-> NoPath, reached |-> FALSE, cleanup |-> "none", nth |-> 0]

\* The unique_filename upload makes of a uuid and a filename.
UniqueFilename(uuid, filename) == ToString(uuid) \o "_" \o secure_filename(filename)

\* A plausible slip: upload_file without the test of the extension.
upload_file_unchecked(fs, uuid, given, filename, content, save) ==
    LET req == [NoRequest EXCEPT !.op = "upload", !.given = given,
                                 !.filename = filename, !.content = content]
        unique_filename == UniqueFilename(uuid, filename)
        place == ResolvePath(PathJoin(UPLOAD_FOLDER, <<unique_filename>>))
    IN  IF ~given THEN [last |-> [req EXCEPT !.status = 400], files |-> fs]
        ELSE IF filename = "" THEN [last |-> [req EXCEPT !.status = 400], files |-> fs]
        ELSE IF save = "failed"
        THEN [last |-> [req EXCEPT !.status = 500, !.place = place], files |-> fs]
        ELSE [last |-> [req EXCEPT !.status = 200, !.file_id = <<unique_filename>>,
                                   !.place = place],
              files |-> [q \in DOMAIN fs \cup {place} |->
                            IF q = place THEN content ELSE fs[q]]]

\* upload_file(): the response (as the record of the request) and the file
\* system after it.
upload_file(fs, uuid, given, filename, content, save) ==
    LET req == [NoRequest EXCEPT !.op = "upload", !.given = given,
                                 !.filename = filename, !.content = content]
        unique_filename == UniqueFilename(uuid, filename)
        place == ResolvePath(PathJoin(UPLOAD_FOLDER, <<unique_filename>>))
    IN  IF ~given THEN [last |-> [req EXCEPT !.status = 400], files |-> fs]
        ELSE IF filename = "" THEN [last |-> [req EXCEPT !.status = 400], files |-> fs]
        ELSE IF ~allowed_file(filename)
        THEN [last |-> [req EXCEPT !.status = 400], files |-> fs]
        ELSE IF save = "failed"
        THEN [last |-> [req EXCEPT !.status = 500, !.place = place], files |-> fs]
        ELSE [last |-> [req EXCEPT !.status = 200, !.file_id = <<unique_filename>>,
                                   !.place = place],
              files |-> [q \in DOMAIN fs \cup {place} |->
                            IF q = place THEN content ELSE fs[q]]]

\* The extractor process_ocr calls for a method.
Extract(method, language, content, env) ==
    IF method = "llm"
    THEN LlmToMarkdown(env.requestsAvail, env.envFile, env.envVar,
                       env.remote, content, language, env.installed)
    ELSE OcrToMarkdown(content, language, env.installed)

\* The part of process_ocr inside its inner try, after the extraction: the
\* response made of the extractor's outcome out. A SystemExit is no
\* Exception: it leaves the handler with no response (status 0).
Respond(req, method, language, out) ==
    IF out.kind = "text"
    THEN [req EXCEPT !.status = 200, !.outcome = "text", !.raw_text = out.text,
                     !.method_used = method, !.language_out = language,
                     !.actual_method = out.method, !.actual_lang = out.lang]
    ELSE IF out.exc = ErrExit
    THEN [req EXCEPT !.status = 0, !.outcome = "exit"]
    ELSE [req EXCEPT !.status = 500, !.outcome = "raise"]

\* The end of process_ocr: the response resp of the inner try and the
\* outcome c of the cleanup. An exception that left the finally clause
\* would reach the outer handler, which answers 500.
Finish(resp, c) ==
    [last |-> [resp EXCEPT !.cleanup = c.cleanup,
                           !.status = IF c.raised THEN 500 ELSE resp.status],
     files |-> c.files]

\* A plausible slip: the cleanup follows the extraction in the try block
\* instead of standing in a finally clause.
process_ocr_cleanup_in_try(fs, given, file_id, method, language, env, rmFails) ==
    LET req == [NoRequest EXCEPT !.op = "process", !.given = given, !.file_id = file_id]
        filepath == PathJoin(UPLOAD_FOLDER, file_id)
        place == ResolvePath(filepath)
        content == IF place \in DOMAIN fs THEN fs[place] ELSE "nofile"
        out == Extract(method, language, content, env)
        resp == Respond([req EXCEPT !.place = place, !.reached = TRUE],
                        method, language, out)
        c == IF out.kind = "text" THEN cleanup_file(fs, filepath, rmFails)
             ELSE [files |-> fs, cleanup |-> "none", raised |-> FALSE]
    IN  IF ~given THEN [last |-> [req EXCEPT !.status = 400], files |-> fs]
        ELSE IF file_id = <<>> THEN [last |-> [req EXCEPT !.status = 400], files |-> fs]
        ELSE IF ~PathExists(fs, filepath)
        THEN [last |-> [req EXCEPT !.status = 404, !.place = place], files |-> fs]
        ELSE Finish(resp, c)

\* process_ocr(): the response (as the record of the request) and the file
\* system after it. given: the request has a JSON body.
process_ocr(fs, given, file_id, method, language, env, rmFails) ==
    LET req == [NoRequest EXCEPT !.op = "process", !.given = given, !.file_id = file_id]
        filepath == PathJoin(UPLOAD_FOLDER, file_id)
        place == ResolvePath(filepath)
        content == IF place \in DOMAIN fs THEN fs[place] ELSE "nofile"
        out == Extract(method, language, content, env)
        resp == Respond([req EXCEPT !.place = place, !.reached = TRUE],
                        method, language, out)
        c == cleanup_file(fs, filepath, rmFails)
    IN  IF ~given THEN [last |-> [req EXCEPT !.status = 400], files |-> fs]
        ELSE IF file_id = <<>> THEN [last |-> [req EXCEPT !.status = 400], files |-> fs]
        ELSE IF ~PathExists(fs, filepath)
        THEN [last |-> [req EXCEPT !.status = 404, !.place = place], files |-> fs]
        ELSE Finish(resp, c)

\* The tokens upload has returned to a client.
Issued == DOMAIN procs

\* The file_id values a client may send.
ClientIds == Issued \cup ForgedIds

DefaultEnv == CHOOSE env \in HandlerEnvs : env.requestsAvail /\ env.envVar = "unset"

\* The environments that tell the calls of a method apart: ocr_to_markdown
\* reads neither the requests library nor the credential.
EnvsFor(method) == IF method = "llm" THEN HandlerEnvs ELSE {DefaultEnv}

InitHandler ==
    /\ files = [q \in {VictimPath} |-> "scan"]
    /\ nextUuid = 1
    /\ procs = <<>>
    /\ last = NoRequest

\* The upload requests: without a part named file, or with one.
UploadRequests ==
    {[given |-> FALSE, filename |-> "", content |-> "empty"]}
    \cup [given : {TRUE}, filename : FileNames, content : UploadContents]

\* The ways file.save can end for a request: it is reached only by a
\* request that passes the checks before it.
SavesFor(u) ==
    IF u.given /\ u.filename # "" /\ allowed_file(u.filename) THEN SaveOutcomes
    ELSE {"saved"}

\* POST /api/upload. uuid4() never repeats a value: the next one is taken
\* whenever a file was made under the last.
Upload ==
    \E u \in UploadRequests :
      \E save \in SavesFor(u) :
        \E r \in {upload_file(files, nextUuid, u.given, u.filename, u.content, save)} :
            /\ r.files # files => nextUuid <= MaxUploads
            /\ files' = r.files
            /\ last' = r.last
            /\ nextUuid' = IF r.files # files THEN nextUuid + 1 ELSE nextUuid
            /\ procs' = IF r.last.status = 200
                        THEN [t \in DOMAIN procs \cup {r.last.file_id} |->
                                IF t \in DOMAIN procs THEN procs[t]
                                ELSE [calls |-> 0, first |-> "none"]]
                        ELSE procs

\* The handling of a process request. For a token upload returned, procs
\* counts the calls and keeps how the cleanup of the first one ended.
Handle(given, file_id, method, language, env, rmFails) ==
    \E r \in {process_ocr(files, given, file_id, method, language, env, rmFails)} :
        LET counted == given /\ file_id \in Issued
            n == IF counted THEN procs[file_id].calls + 1 ELSE 0
        IN  /\ n <= MaxProcess
            /\ files' = r.files
            /\ last' = [r.last EXCEPT !.nth = n]
            /\ procs' = IF counted
                        THEN [procs EXCEPT ![file_id] =
                                [calls |-> n,
                                 first |-> IF n = 1 THEN r.last.cleanup ELSE @.first]]
                        ELSE procs
            /\ UNCHANGED nextUuid

\* POST /api/process with no JSON body, or with no file_id in it.
ProcessBadRequest ==
    \E given \in BOOLEAN : Handle(given, <<>>, "ocr", "eng", DefaultEnv, FALSE)

\* POST /api/process with a file_id that names nothing that exists.
ProcessNotFound ==
    \E file_id \in ClientIds \ {<<>>} :
        /\ ~PathExists(files, PathJoin(UPLOAD_FOLDER, file_id))
        /\ Handle(TRUE, file_id, "ocr", "eng", DefaultEnv, FALSE)

\* POST /api/process with a file_id that names something that exists.
ProcessFile ==
    \E file_id \in ClientIds \ {<<>>}, method \in Methods, language \in HandlerLangs,
       rmFails \in BOOLEAN :
        /\ PathExists(files, PathJoin(UPLOAD_FOLDER, file_id))
        /\ \E env \in EnvsFor(method) :
                Handle(TRUE, file_id, method, language, env, rmFails)

NextHandler ==
    \/ Upload /\ UNCHANGED <<ext, raw, md, via>>
    \/ ProcessBadRequest /\ UNCHANGED <<ext, raw, md, via>>
    \/ ProcessNotFound /\ UNCHANGED <<ext, raw, md, via>>
    \/ ProcessFile /\ UNCHANGED <<ext, raw, md, via>>

Init == InitHandler /\ ExtIdle /\ TextIdle

Next == NextHandler

Spec == Init /\ [][Next]_vars

(***************************************************************************)
(* SpecText: the two ways a result text is made, on every raw text.        *)
(***************************************************************************)
HandlerIdle == InitHandler

InitText ==
    /\ HandlerIdle
    /\ ExtIdle
    /\ raw \in Texts
    /\ md = <<>>
    /\ via = "none"

\* ocr_to_markdown's normalization of the engine's raw text.
NormalizeOcrText ==
    /\ via = "none"
    /\ md' = MarkdownNormalize(raw)
    /\ via' = "ocr"
    /\ UNCHANGED <<files, nextUuid, procs, last, ext, raw>>

\* llm_to_markdown's treatment of the remote model's content.
FormatLlmContent ==
    /\ via = "none"
    /\ md' = LlmContentToMarkdown(raw)
    /\ via' = "llm"
    /\ UNCHANGED <<files, nextUuid, procs, last, ext, raw>>

NextText == NormalizeOcrText \/ FormatLlmContent

SpecText == InitText /\ [][NextText]_vars

(***************************************************************************)
(* SpecExtract: calls of the two extractors, as the command line and the   *)
(* request handler make them, in every environment.                        *)
(***************************************************************************)
InitExtract ==
    /\ HandlerIdle
    /\ TextIdle
    /\ \E requestsAvail \in BOOLEAN, envFile \in EnvFiles, envVar \in EnvVars,
          installed \in SUBSET Packs :
            ext = [NoCall EXCEPT !.requestsAvail = requestsAvail, !.envFile = envFile,
                                 !.envVar = envVar, !.installed = installed]

\* A call ocr_to_markdown(image_path, lang).
CallOcr ==
    /\ ext.fn = "none"
    /\ \E content \in Contents \cup {"nofile"}, lang \in LangCodes :
        ext' = [ext EXCEPT !.fn = "ocr", !.content = content, !.lang = lang,
                           !.out = OcrToMarkdown(content, lang, ext.installed)]
    /\ UNCHANGED <<files, nextUuid, procs, last, raw, md, via>>

\* A call llm_to_markdown(image_path, lang).
CallLlm ==
    /\ ext.fn = "none"
    /\ \E remote \in Remotes, content \in Contents \cup {"nofile"}, lang \in LangCodes :
        ext' = [ext EXCEPT !.fn = "llm", !.remote = remote, !.content = content,
                           !.lang = lang,
                           !.out = LlmToMarkdown(ext.requestsAvail, ext.envFile, ext.envVar,
                                                 remote, content, lang, ext.installed)]
    /\ UNCHANGED <<files, nextUuid, procs, last, raw, md, via>>

NextExtract == CallOcr \/ CallLlm

SpecExtract == InitExtract /\ [][NextExtract]_vars

(***************************************************************************)
(* Claims about the result texts (SpecText).                               *)
(***************************************************************************)

\* C5, as claimed: every result text, of the local path and of a successful
\* remote response alike, ends with exactly one trailing newline and holds
\* no two blank lines in a row.
C5_EveryResultNormalized ==
    via # "none" => EndsWithOneNewline(md) /\ ~HasBlankRun(md)

\* C5, amended: every result text ends with exactly one trailing newline,
\* and a result of the local path holds no two blank lines in a row (the
\* remote content is only stripped, its blank lines are kept).
C5_ResultEndsWithNewlineLocalCollapsed ==
    /\ via # "none" => EndsWithOneNewline(md)
    /\ via = "ocr" => ~HasBlankRun(md)

\* C5's case: the local path has normalized a text with a run of blank lines.
C5_Witness == via = "ocr" /\ HasText(raw) /\ HasBlankRun(raw) /\ HasText(md)

\* C6, as claimed: for every raw text, the empty and the whitespace-only
\* ones included, the normalizer's output ends with exactly one trailing
\* newline and has no leading and no trailing blank line.
C6_NoBlankLineAtEitherEnd ==
    via = "ocr" =>
        EndsWithOneNewline(md) /\ NoLeadingBlankLine(md) /\ NoTrailingBlankLine(md)

\* C6, amended: the normalizer's output ends with exactly one trailing
\* newline; for a raw text with a non-whitespace character it has no
\* leading and no trailing blank line, and for an empty or whitespace-only
\* raw text it is the single newline (one blank line).
C6_NormalizerEnds ==
    via = "ocr" =>
        /\ EndsWithOneNewline(md)
        /\ HasText(raw) => NoLeadingBlankLine(md) /\ NoTrailingBlankLine(md)
        /\ ~HasText(raw) => md = <<NL>>

\* C6's case: a raw text with blank lines before and after its text has
\* been normalized.
C6_Witness ==
    /\ via = "ocr"
    /\ HasText(raw)
    /\ Len(raw) >= 4
    /\ raw[1] = NL
    /\ raw[Len(raw) - 1] = NL
    /\ raw[Len(raw)] = NL

(***************************************************************************)
(* Claims about the extractors (SpecExtract).                              *)
(***************************************************************************)

\* The local extraction of the call's image and language, in its environment.
LocalOfCall == OcrToMarkdown(ext.content, ext.lang, ext.installed)

\* The call found no usable credential.
NoCredential == ResolveApiKey(ext.envFile, ext.envVar) = ""

SameResult(a, b) == a.kind = b.kind /\ a.text = b.text /\ a.exc = b.exc

\* C3, as claimed: a call of llm_to_markdown returns a text and never
\* raises, whatever the credential, the remote outcome and the local
\* engine's outcome.
C3_LlmNeverRaises == ext.fn = "llm" => ext.out.kind = "text"

\* C3, amended: with the requests library imported, no error of the remote
\* request reaches the caller: the call returns a text, or raises the very
\* error the local extractor raises for the same image and language.
C3_LlmRaisesOnlyLocalErrors ==
    ext.fn = "llm" /\ ext.requestsAvail =>
        \/ ext.out.kind = "text"
        \/ LocalOfCall.kind = "raise" /\ ext.out.exc = LocalOfCall.exc

\* C3's case: the remote request failed with an HTTP error status and the
\* call returned the local text.
C3_Witness ==
    /\ ext.fn = "llm"
    /\ ~NoCredential
    /\ ext.remote.kind = "http_error"
    /\ ext.out.kind = "text"
    /\ ext.out.method = "ocr"

\* C7, as claimed: with no usable credential, or a remote request that
\* timed out, failed in transport or came back malformed or empty, the call
\* sends no further request and returns exactly what the local extractor
\* returns for the same image and language.
C7_FallbackEqualsLocal ==
    ext.fn = "llm" /\ (NoCredential \/ ext.remote.kind # "ok") =>
        /\ SameResult(ext.out, LocalOfCall)
        /\ ext.out.posts <= IF NoCredential THEN 0 ELSE 1

\* C7, amended: the same, provided the requests library was imported (without
\* it the call raises SystemExit before it looks for a credential).
C7_FallbackEqualsLocalWithRequests ==
    ext.fn = "llm" /\ ext.requestsAvail /\ (NoCredential \/ ext.remote.kind # "ok") =>
        /\ SameResult(ext.out, LocalOfCall)
        /\ ext.out.calls = LocalOfCall.calls
        /\ ext.out.posts <= IF NoCredential THEN 0 ELSE 1

\* C7's case: a request was sent and timed out, and the call returned the
\* text of the local extraction in the language asked for.
C7_Witness ==
    /\ ext.fn = "llm"
    /\ ext.requestsAvail
    /\ ~NoCredential
    /\ ext.remote.kind = "timeout"
    /\ ext.lang = "hrv"
    /\ ext.out.kind = "text"
    /\ ext.out.lang = "hrv"

\* C9: in ocr_to_markdown, an engine error saying the language data is
\* missing leads to exactly one more engine run, with "eng", whose text is
\* normalized and returned; any other engine error, and any error of the
\* retry, is raised to the caller with no further run; no call runs the
\* engine more than twice.
C9_LanguageRetry ==
    ext.fn = "ocr" /\ Decodable(ext.content) =>
        LET first == IF ext.lang = "" THEN "eng" ELSE ext.lang
            r1 == EngineRun(ext.content, first, ext.installed)
            r2 == EngineRun(ext.content, "eng", ext.installed)
        IN  /\ Len(ext.out.calls) <= 2
            /\ r1.ok => ext.out.calls = <<first>> /\ ext.out.kind = "text"
            /\ ~r1.ok /\ r1.err = ErrLang =>
                /\ ext.out.calls = <<first, "eng">>
                /\ r2.ok => /\ ext.out.kind = "text"
                            /\ ext.out.text = MarkdownNormalize(r2.text)
                /\ ~r2.ok => ext.out.kind = "raise" /\ ext.out.exc = r2.err
            /\ ~r1.ok /\ r1.err # ErrLang =>
                /\ ext.out.calls = <<first>>
                /\ ext.out.kind = "raise"
                /\ ext.out.exc = r1.err

\* C9's case: the pack of the language asked for is missing, the retry with
\* "eng" succeeded and its text was returned.
C9_Witness ==
    /\ ext.fn = "ocr"
    /\ ext.lang = "hrv"
    /\ "hrv" \notin ext.installed
    /\ ext.out.kind = "text"
    /\ ext.out.calls = <<"hrv", "eng">>
    /\ ext.out.lang = "eng"


(***************************************************************************)
(* Claims about the request handlers (Spec).                               *)
(***************************************************************************)

\* C1: once a process request has found its file_id to exist, the cleanup
\* is made on every way out of the handler (a text, an exception of the
\* extractor, a SystemExit): the file is removed, or the removal failed and
\* was logged; and the response is the one the extraction alone decides,
\* whether the removal failed or not.
C1_CleanupOnEveryExit ==
    last.op = "process" /\ last.reached =>
        /\ last.cleanup \in {"removed", "failed"}
        /\ last.cleanup = "removed" => last.place \notin DOMAIN files
        /\ last.status = (CASE last.outcome = "text" -> 200
                            [] last.outcome = "raise" -> 500
                            [] OTHER -> 0)

\* C1's case: the extractor raised on a stored file, the handler answered
\* 500 and the file is gone.
C1_Witness ==
    /\ last.op = "process"
    /\ last.nth = 1
    /\ last.outcome = "raise"
    /\ last.status = 500
    /\ last.cleanup = "removed"
    /\ last.place = StoredAt(last.file_id)

\* C2, as claimed: the second process call on a token answers 404, whether
\* the first call's extraction succeeded or failed.
C2_SecondProcessNotFound ==
    last.op = "process" /\ last.nth = 2 => last.status = 404

\* C2, amended: the second process call on a token answers 404, whether the
\* first call's extraction succeeded or failed, unless the first call's
\* removal of the file failed (the file is then still there).
C2_SecondProcessNotFoundUnlessKept ==
    last.op = "process" /\ last.nth = 2 /\ procs[last.file_id].first # "failed" =>
        last.status = 404

\* C2's case: the first call removed the file and the second was answered 404.
C2_Witness ==
    /\ last.op = "process"
    /\ last.nth = 2
    /\ procs[last.file_id].first = "removed"
    /\ last.status = 404

\* C4: the result of a process request names the method that made the text
\* and the language that was applied.
C4_ResultNamesMethodAndLanguageUsed ==
    last.op = "process" /\ last.status = 200 =>
        /\ last.method_used = last.actual_method
        /\ last.language_out = last.actual_lang

\* C8, as claimed: upload answers 400 to a zero-byte file and to a filename
\* whose extension is off the list, and leaves the files as they were.
C8_RejectsEmptyAndDisallowed ==
    [][last'.op = "upload" /\ last'.given
         /\ (last'.content = "empty" \/ ~allowed_file(last'.filename))
       => last'.status = 400 /\ files' = files]_vars

\* C8, amended: upload answers 400 to a request with no file part, to an
\* empty filename and to a filename whose extension is off the list, and
\* every upload answered 400 leaves the files as they were (a zero-byte file
\* under an allowed name is stored like any other).
C8_RejectsMissingAndDisallowed ==
    [][last'.op = "upload" =>
         /\ (~last'.given \/ last'.filename = "" \/ ~allowed_file(last'.filename))
                => last'.status = 400
         /\ last'.status = 400 => files' = files]_vars

\* C8's case: an upload named x.exe has been answered 400.
C8_Witness ==
    /\ last.op = "upload"
    /\ last.given
    /\ last.filename = "x.exe"
    /\ last.status = 400

\* C10: whatever file_id a client sends, process reads and removes nothing
\* but the file upload stored under that very token: any other file_id is
\* answered 404, and no file outside the upload directory is removed.
C10_OnlyUploadedFilesTouched ==
    /\ VictimPath \in DOMAIN files
    /\ last.op = "process" /\ last.given /\ last.file_id # <<>> =>
        \/ last.status = 404
        \/ last.file_id \in Issued /\ last.place = StoredAt(last.file_id)

====
